---- MODULE Spec2Model ----
(***************************************************************************)
(* State-machine model of distributed/spans.py: the client-side span()     *)
(* context manager, the scheduler-side SpansSchedulerExtension (the span   *)
(* forest, its indices, observe_tasks, find_by_tags, heartbeat), the       *)
(* rollups of Span over time (stop, nthreads_intervals, active_cpu_seconds,*)
(* cumulative_worker_metrics), Span.merge, and the worker-side             *)
(* SpansWorkerExtension (collect_digests, heartbeat).                      *)
(***************************************************************************)
EXTENDS Integers, Sequences, FiniteSets, TLC

\* ------------------------------------------------------------------ bounds
\* Largest number of tasks handed to one observe_tasks call.
MaxBatch == 2
\* Largest number of tags handed to one find_by_tags call.
MaxTags == 2
\* Largest total a worker records under one key, and largest total the
\* scheduler is handed for one key.
MaxTotal == 2
\* Largest number of heartbeat payloads in flight from the worker.
MaxInFlight == 1
\* Largest number of collect_digests calls that succeed between two hand-offs.
MaxCollects == 2
\* Largest number of entries of a heartbeat payload handed to the scheduler.
MaxEntries == 2
\* Latest reading of the scheduler's clock.
MaxTime == 4
\* Largest number of samples appended to the thread-count history.
MaxSamples == 2
\* Largest number of spans handed to one Span.merge call.
MaxMerged == 2

\* ------------------------------------------------------- fixed small universes
\* Scheduler TaskState objects and the TaskGroup each belongs to (ts.group).
Tasks == {"t1", "t2", "t3"}
Groups == {"g1", "g2"}
GroupOf(t) == IF t = "t3" THEN "g2" ELSE "g1"
\* Tags asked of find_by_tags.
QueryTags == {"x", "y"}
\* Values of the `code` argument of observe_tasks; <<>> is the empty tuple.
Codes == {<<>>, <<"c1">>}

\* The first sample of the thread-count history: one thread at time 0.
InitialSample == <<0, 1>>

\* None for a span (TaskGroup.span_id unset, Span._parent is None).
NoSpan == 0
\* ts.annotations.get("span") when the task carries no span annotation.
NoAnn == [name |-> <<>>, ids |-> <<>>]
\* Name of the default span.
DefaultName == <<"default">>

Range(s) == {s[i] : i \in 1..Len(s)}
Last(s) == s[Len(s)]

\* All sequences over S of length lo..hi.
SeqsOf(S, lo, hi) == UNION {[1..n -> S] : n \in lo..hi}

\* All sequences of pairwise distinct elements of S of length lo..hi.
DistinctSeqs(S, lo, hi) ==
    {s \in SeqsOf(S, lo, hi) : \A i, j \in 1..Len(s) : i # j => s[i] # s[j]}

VARIABLES
    \* the next uuid4 value the scheduler mints
    nextId,
    \* scheduler tasks: ts.annotations.get("span")
    annotations,
    \* task groups: TaskGroup.span_id and TaskGroup.done
    span_id, tg_done,
    \* SpansSchedulerExtension
    spans, root_spans, spans_search_by_name, spans_search_by_tag,
    \* Worker.digests_total_since_heartbeat (the live accumulator),
    \* SpansWorkerExtension.digests_total_since_heartbeat (the pending
    \* buffer), heartbeat payloads in flight to the scheduler, and the total
    \* the worker has ever recorded per key (history)
    worker_digests, digests_total_since_heartbeat, in_flight, recorded,
    \* history: what each collect_digests call that succeeded since the last
    \* hand-off copied, and per payload key the total of the entries the
    \* scheduler's heartbeat has processed
    copied, ingested,
    \* the scheduler's clock (distributed.metrics.time),
    \* SchedulerState.total_nthreads_history as (timestamp, count) samples,
    \* and TaskGroup.stop
    now, total_nthreads_history, tg_stop,
    \* the last call made: its name, arguments, result and error
    ret

taskVars == <<annotations, span_id, tg_done>>
regVars == <<spans, root_spans, spans_search_by_name, spans_search_by_tag>>
workerVars == <<worker_digests, digests_total_since_heartbeat, in_flight, recorded,
                copied, ingested>>
timeVars == <<now, total_nthreads_history, tg_stop>>
vars == <<nextId, annotations, span_id, tg_done,
          spans, root_spans, spans_search_by_name, spans_search_by_tag,
          worker_digests, digests_total_since_heartbeat, in_flight, recorded,
          copied, ingested, now, total_nthreads_history, tg_stop, ret>>

Ret(op, arg, out, err) == [op |-> op, arg |-> arg, out |-> out, err |-> err]
\* The last step was no call of the scheduler or worker extension.
NoCall == Ret("", <<>>, <<>>, "")

\* ------------------------------------------------------------ dictionaries
\* A dict / defaultdict is a function whose domain is the set of keys present.
EmptyDict == <<>>
DictGet(d, k, default) == IF k \in DOMAIN d THEN d[k] ELSE default
DictSet(d, k, v) == [x \in (DOMAIN d) \cup {k} |-> IF x = k THEN v ELSE d[x]]
\* F(x), with x evaluated once however often F uses its argument.
Bind(x, F(_)) == CHOOSE y \in {F(v) : v \in {x}} : TRUE

\* defaultdict(list).__getitem__: a missing key is inserted with [].
DefaultListTouch(d, k) == IF k \in DOMAIN d THEN d ELSE DictSet(d, k, <<>>)

\* ------------------------------------------------------------------ span()
\* The context manager span(*tags) entered where the annotation in force is
\* `prev` (NoAnn outside any span); `uuids` are the uuid4 values it mints, one
\* per tag. It yields the annotation in force inside the block, or raises.
span(prev, tags, uuids) ==
    IF tags = <<>>
    THEN [err |-> "ValueError", ann |-> prev]
    ELSE [err |-> "", ann |-> [name |-> prev.name \o tags, ids |-> prev.ids \o uuids]]

\* The client program whose tasks reach the scheduler; uuid4 values are
\* numbered in the order the program mints them:
\*     with span("x"):              Ax
\*         with span("y"):          Axy
\*             with span("x"):      Axyx
\*         with span("x"):          Axx
\*     with span("x"):              Bx   (same tag re-opened: a new span)
Ax == span(NoAnn, <<"x">>, <<1>>).ann
Axy == span(Ax, <<"y">>, <<2>>).ann
Axyx == span(Axy, <<"x">>, <<3>>).ann
Axx == span(Ax, <<"x">>, <<4>>).ann
Bx == span(NoAnn, <<"x">>, <<5>>).ann
ClientAnns == {Ax, Axy, Axyx, Axx, Bx}
\* The uuid4 values the scheduler mints differ from all of the client's.
FirstSchedulerUuid == Cardinality(ClientAnns) + 1

\* ---------------------------------------------------------------- class Span
\* Span.__init__. `nth` is the position of the span in the insertion-ordered
\* dict SpansSchedulerExtension.spans (1 for the span registered first).
\* enqueued is time(); total_nthreads_offset is the 0-based index of the last
\* sample of the thread-count history at this moment.
Span(name, id_, parent, nth) ==
    [name |-> name, id |-> id_, parent |-> parent, children |-> <<>>,
     groups |-> {}, code |-> <<>>, cumulative_worker_metrics |-> EmptyDict,
     nth |-> nth, enqueued |-> now,
     total_nthreads_offset |-> Len(total_nthreads_history) - 1]

\* Span.traverse_spans: pre-order, self first. S is the spans dict.
RECURSIVE traverse_spans(_, _)
RECURSIVE traverse_children(_, _, _)
traverse_children(S, ch, i) ==
    IF i > Len(ch) THEN <<>>
    ELSE traverse_spans(S, ch[i]) \o traverse_children(S, ch, i + 1)

traverse_spans(S, id) == <<id>> \o traverse_children(S, S[id].children, 1)

\* Span.traverse_groups, as a set.
traverse_groups(S, id) == UNION {S[s].groups : s \in Range(traverse_spans(S, id))}

\* Span.done: all(tg.done for tg in self.traverse_groups()).
done(S, tgd, id) == \A g \in traverse_groups(S, id) : tgd[g]

\* ------------------------------------------- class SpansSchedulerExtension
\* The extension's four containers as one record.
Registry(s, r, n, t) ==
    [spans |-> s, root_spans |-> r, spans_search_by_name |-> n,
     spans_search_by_tag |-> t]

\* SpansSchedulerExtension.__init__
EmptyRegistry == Registry(EmptyDict, <<>>, EmptyDict, EmptyDict)

reg == Registry(spans, root_spans, spans_search_by_name, spans_search_by_tag)

\* `for tag in name: self.spans_search_by_tag[tag].append(span)`
RECURSIVE index_tags(_, _, _, _)
index_tags(bt, name, i, id) ==
    IF i > Len(name) THEN bt
    ELSE index_tags(DictSet(bt, name[i], Append(DictGet(bt, name[i], <<>>), id)),
                    name, i + 1, id)

\* Span.__init__ for the span (name, ids[-1]) under `parent` followed by its
\* registration (the tail of _ensure_span): by id, in the name index, in the
\* tag index once per tag of the name, and in the parent's children or in
\* root_spans.
register_span(Q, name, id_, parent) ==
    LET sp == Span(name, id_, parent, Cardinality(DOMAIN Q.spans) + 1)
        S1 == DictSet(Q.spans, id_, sp)
    IN  Registry(
            IF parent # NoSpan
            THEN [S1 EXCEPT ![parent].children = Append(@, id_)]
            ELSE S1,
            IF parent # NoSpan THEN Q.root_spans ELSE Append(Q.root_spans, id_),
            DictSet(Q.spans_search_by_name, name,
                    Append(DictGet(Q.spans_search_by_name, name, <<>>), id_)),
            index_tags(Q.spans_search_by_tag, name, 1, id_))

\* SpansSchedulerExtension._ensure_span; returns the registry and the span id.
RECURSIVE _ensure_span(_, _, _)
RECURSIVE ensure_prefixes(_, _, _, _, _)
\* `for i in range(1, len(name)): parent = self._ensure_span(name[:i], ids[:i])`
ensure_prefixes(R, name, ids, i, parent) ==
    IF i >= Len(name) THEN [reg |-> R, parent |-> parent]
    ELSE LET Rest(r) == ensure_prefixes(r.reg, name, ids, i + 1, r.span)
         IN  Bind(_ensure_span(R, SubSeq(name, 1, i), SubSeq(ids, 1, i)), Rest)

_ensure_span_no_lookup(R, name, ids) ==
    LET Create(p) == [reg |-> register_span(p.reg, name, Last(ids), p.parent),
                      span |-> Last(ids)]
    IN  Bind(ensure_prefixes(R, name, ids, 1, NoSpan), Create)

_ensure_span(R, name, ids) ==
    IF Last(ids) \in DOMAIN R.spans
    THEN [reg |-> R, span |-> Last(ids)]
    ELSE LET Create(p) == [reg |-> register_span(p.reg, name, Last(ids), p.parent),
                           span |-> Last(ids)]
         IN  Bind(ensure_prefixes(R, name, ids, 1, NoSpan), Create)

_ensure_default_span_any_not_done(R, tgd, fresh) ==
    LET Lookup(Q) ==
            LET defaults == Q.spans_search_by_name[DefaultName]
                NotDone(id) == ~done(Q.spans, tgd, id)
                open == SelectSeq(defaults, NotDone)
                Created(r) == [reg |-> r.reg, span |-> r.span, minted |-> TRUE]
            IN  IF Len(open) > 0
                THEN [reg |-> Q, span |-> open[1], minted |-> FALSE]
                ELSE Bind(_ensure_span(Q, DefaultName, <<fresh>>), Created)
    IN  Bind([R EXCEPT !.spans_search_by_name = DefaultListTouch(@, DefaultName)],
             Lookup)

\* SpansSchedulerExtension._ensure_default_span; `fresh` is the uuid4 it would
\* mint. Returns the registry, the span id and whether the uuid was used.
_ensure_default_span(R, tgd, fresh) ==
    LET Lookup(Q) ==
            LET defaults == Q.spans_search_by_name[DefaultName]
                Created(r) == [reg |-> r.reg, span |-> r.span, minted |-> TRUE]
            IN  IF Len(defaults) > 0 /\ ~done(Q.spans, tgd, Last(defaults))
                THEN [reg |-> Q, span |-> Last(defaults), minted |-> FALSE]
                ELSE Bind(_ensure_span(Q, DefaultName, <<fresh>>), Created)
    IN  Bind([R EXCEPT !.spans_search_by_name = DefaultListTouch(@, DefaultName)],
             Lookup)

\* `span._code[code] = None`: a dict used as an insertion-ordered set.
add_code(cs, code) == IF code \in Range(cs) THEN cs ELSE Append(cs, code)

\* The span observe_tasks chooses for task t, and the state after choosing it:
\* the group's span if it has one, else the annotation's span, else the default
\* span (looked up once per call and kept in the local default_span). st
\* carries the registry, TaskGroup.span_id, the annotations, the uuid source
\* and default_span.
choose_span_annotation_first(st, tgd, t) ==
    LET tg == GroupOf(t)
        ann == st.annotations[t]
        Ensured(r) == [st |-> [st EXCEPT !.reg = r.reg], span |-> r.span]
        Default(r) == [st |-> [st EXCEPT !.reg = r.reg,
                                         !.default_span = r.span,
                                         !.nextId = IF r.minted THEN @ + 1 ELSE @],
                       span |-> r.span]
    IN  IF ann # NoAnn
        THEN Bind(_ensure_span(st.reg, ann.name, ann.ids), Ensured)
        ELSE IF st.span_id[tg] # NoSpan
        THEN [st |-> st, span |-> st.span_id[tg]]
        ELSE IF st.default_span = NoSpan
        THEN Bind(_ensure_default_span(st.reg, tgd, st.nextId), Default)
        ELSE [st |-> st, span |-> st.default_span]

choose_span(st, tgd, t) ==
    LET tg == GroupOf(t)
        ann == st.annotations[t]
        Ensured(r) == [st |-> [st EXCEPT !.reg = r.reg], span |-> r.span]
        Default(r) == [st |-> [st EXCEPT !.reg = r.reg,
                                         !.default_span = r.span,
                                         !.nextId = IF r.minted THEN @ + 1 ELSE @],
                       span |-> r.span]
    IN  IF st.span_id[tg] # NoSpan
        THEN [st |-> st, span |-> st.span_id[tg]]
        ELSE IF ann # NoAnn
        THEN Bind(_ensure_span(st.reg, ann.name, ann.ids), Ensured)
        ELSE IF st.default_span = NoSpan
        THEN Bind(_ensure_default_span(st.reg, tgd, st.nextId), Default)
        ELSE [st |-> st, span |-> st.default_span]

\* `tg.span_id = span.id; span.groups.add(tg)`
attach_id_only(st, tg, sp) == [st EXCEPT !.span_id[tg] = sp]

attach(st, tg, sp) ==
    [st EXCEPT !.span_id[tg] = sp, !.reg.spans[sp].groups = @ \cup {tg}]

\* One iteration of the loop of observe_tasks, over task t.
observe_one_pop_when_attaching(st, tgd, t, code) ==
    LET tg == GroupOf(t)
        Rest(sel) ==
            LET s2 == IF st.span_id[tg] # NoSpan THEN sel.st
                      ELSE [attach(sel.st, tg, sel.span) EXCEPT !.annotations[t] = NoAnn]
            IN  IF code # <<>>
                THEN [s2 EXCEPT !.reg.spans[sel.span].code = add_code(@, code)]
                ELSE s2
    IN  Bind(choose_span(st, tgd, t), Rest)

observe_one(st, tgd, t, code) ==
    LET tg == GroupOf(t)
        Rest(sel) ==
            LET s2 == IF st.span_id[tg] # NoSpan THEN sel.st
                      ELSE attach(sel.st, tg, sel.span)
            \* if code: span._code[code] = None; ts.annotations.pop("span", None)
            IN  IF code # <<>>
                THEN [s2 EXCEPT !.reg.spans[sel.span].code = add_code(@, code),
                                !.annotations[t] = NoAnn]
                ELSE [s2 EXCEPT !.annotations[t] = NoAnn]
    IN  Bind(choose_span(st, tgd, t), Rest)

\* SpansSchedulerExtension.observe_tasks: the loop over tss[i..].
RECURSIVE observe_loop(_, _, _, _, _)
observe_loop(st, tgd, tss, i, code) ==
    IF i > Len(tss) THEN st
    ELSE LET Rest(s) == observe_loop(s, tgd, tss, i + 1, code)
         IN  Bind(observe_one(st, tgd, tss[i], code), Rest)

observe_tasks(R, sid, anns, nid, tgd, tss, code) ==
    observe_loop([reg |-> R, span_id |-> sid, annotations |-> anns,
                  nextId |-> nid, default_span |-> NoSpan],
                 tgd, tss, 1, code)

\* SpansSchedulerExtension.find_by_tags, run to exhaustion. `matches` is the
\* concatenation of the tag index lists of the tags, in the order by_level is
\* filled; reading the defaultdict inserts each missing tag with [].
RECURSIVE tag_matches(_, _, _)
tag_matches(bt, tags, i) ==
    IF i > Len(tags) THEN <<>>
    ELSE DictGet(bt, tags[i], <<>>) \o tag_matches(bt, tags, i + 1)

RECURSIVE touch_tags(_, _, _)
touch_tags(bt, tags, i) ==
    IF i > Len(tags) THEN bt
    ELSE touch_tags(DefaultListTouch(bt, tags[i]), tags, i + 1)

\* by_level[n]: the matches whose name has n tags, in insertion order.
by_level(S, matches, n) ==
    LET AtLevel(id) == Len(S[id].name) = n IN SelectSeq(matches, AtLevel)

\* The loop `for _, level in sorted(by_level.items())` from level n on;
\* a level with no match yields nothing, as if absent from by_level.
RECURSIVE yield_levels_seen_yielded(_, _, _, _, _)
yield_levels_seen_yielded(S, matches, n, top, seen) ==
    IF n > top THEN <<>>
    ELSE LET level == by_level(S, matches, n)
             ParentUnseen(id) == S[id].parent \notin seen
             yielded == SelectSeq(level, ParentUnseen)
         IN  yielded \o yield_levels_seen_yielded(S, matches, n + 1, top,
                                                  seen \cup Range(yielded))

RECURSIVE yield_levels_roots_only(_, _, _, _, _)
yield_levels_roots_only(S, matches, n, top, seen) ==
    IF n > top THEN <<>>
    ELSE LET level == by_level(S, matches, n)
             IsRoot(id) == S[id].parent = NoSpan
         IN  SelectSeq(level, IsRoot)
                 \o yield_levels_roots_only(S, matches, n + 1, top, seen)

RECURSIVE yield_levels(_, _, _, _, _)
yield_levels(S, matches, n, top, seen) ==
    IF n > top THEN <<>>
    ELSE LET level == by_level(S, matches, n)
             seen2 == seen \cup Range(level)
             ParentUnseen(id) == S[id].parent \notin seen2
         IN  SelectSeq(level, ParentUnseen)
                 \o yield_levels(S, matches, n + 1, top, seen2)

\* Returns the registry after the call and the sequence of spans yielded.
find_by_tags(R, tags) ==
    LET matches == tag_matches(R.spans_search_by_tag, tags, 1)
        top == IF matches = <<>> THEN 0
               ELSE CHOOSE n \in {Len(R.spans[id].name) : id \in Range(matches)} :
                        \A id \in Range(matches) : Len(R.spans[id].name) <= n
    IN  [reg |-> [R EXCEPT !.spans_search_by_tag = touch_tags(@, tags, 1)],
         out |-> yield_levels(R.spans, matches, 1, top, {})]

\* SpansSchedulerExtension.heartbeat: one entry (key, v) of data.items(), with
\* key = (context, span_id, *other), span_id being sid below. Returns the spans dict and the error
\* raised, "" if none.
heartbeat_entry_overwrite(S, e) ==
    LET sid == e[1][2]
        k == <<e[1][1]>> \o SubSeq(e[1], 3, Len(e[1]))
    IN  IF sid = NoSpan THEN [spans |-> S, err |-> "AssertionError"]
        ELSE IF sid \notin DOMAIN S THEN [spans |-> S, err |-> "KeyError"]
        ELSE [spans |-> [S EXCEPT ![sid].cumulative_worker_metrics =
                                      DictSet(@, k, e[2])],
              err |-> ""]

heartbeat_entry_skip_unknown(S, e) ==
    LET sid == e[1][2]
        k == <<e[1][1]>> \o SubSeq(e[1], 3, Len(e[1]))
    IN  IF sid = NoSpan THEN [spans |-> S, err |-> "AssertionError"]
        ELSE IF sid \notin DOMAIN S THEN [spans |-> S, err |-> ""]
        ELSE [spans |-> [S EXCEPT ![sid].cumulative_worker_metrics =
                                      DictSet(@, k, DictGet(@, k, 0) + e[2])],
              err |-> ""]

heartbeat_entry(S, e) ==
    LET sid == e[1][2]
        k == <<e[1][1]>> \o SubSeq(e[1], 3, Len(e[1]))
    IN  \* assert isinstance(span_id, str)
        IF sid = NoSpan THEN [spans |-> S, err |-> "AssertionError"]
        \* span = self.spans[span_id]
        ELSE IF sid \notin DOMAIN S THEN [spans |-> S, err |-> "KeyError"]
        \* span._cumulative_worker_metrics[(context, *other)] += v
        ELSE [spans |-> [S EXCEPT ![sid].cumulative_worker_metrics =
                                      DictSet(@, k, DictGet(@, k, 0) + e[2])],
              err |-> ""]

\* SpansSchedulerExtension.heartbeat: the loop over data.items() from entry i;
\* an error ends the call with the earlier entries applied.
RECURSIVE heartbeat(_, _, _)
heartbeat(S, data, i) ==
    IF i > Len(data) THEN [spans |-> S, err |-> ""]
    ELSE LET Rest(r) == IF r.err # "" THEN r ELSE heartbeat(r.spans, data, i + 1)
         IN  Bind(heartbeat_entry(S, data[i]), Rest)

\* ----------------------------------------------- class SpansWorkerExtension
\* A dict of the worker is the sequence of its (key, value) items in insertion
\* order. d[k] += v on a defaultdict:
ItemsAdd(d, k, v) ==
    IF \E i \in 1..Len(d) : d[i][1] = k
    THEN [i \in 1..Len(d) |-> IF d[i][1] = k THEN <<k, d[i][2] + v>> ELSE d[i]]
    ELSE Append(d, <<k, v>>)

\* d.get(k, 0)
ItemsGet(d, k) ==
    IF \E i \in 1..Len(d) : d[i][1] = k
    THEN (CHOOSE e \in Range(d) : e[1] = k)[2]
    ELSE 0

\* SpansWorkerExtension.collect_digests: `pending` is the extension's
\* digests_total_since_heartbeat, `live` the worker's. Returns the error
\* raised ("" if none) and the extension's dict after the call.
collect_digests_no_assert(pending, live) ==
    LET IsExecute(e) == e[1][1] = "execute"
    IN  [err |-> "", pending |-> SelectSeq(live, IsExecute)]

collect_digests(pending, live) ==
    LET IsExecute(e) == e[1][1] = "execute"
    IN  IF pending # <<>>
        THEN [err |-> "AssertionError", pending |-> pending]
        ELSE [err |-> "", pending |-> SelectSeq(live, IsExecute)]

\* SpansWorkerExtension.heartbeat: returns the dict and leaves an empty one.
worker_heartbeat_keep(pending) == [out |-> pending, pending |-> pending]

worker_heartbeat_fresh(pending) == [out |-> <<>>, pending |-> <<>>]

worker_heartbeat(pending) == [out |-> pending, pending |-> <<>>]

\* Worker: a metric is recorded in Worker.digests_total_since_heartbeat.
digest_metric(live, k, v) == ItemsAdd(live, k, v)

\* Worker.get_metrics after collect_digests returned:
\* self.digests_total_since_heartbeat.clear()
clear_digests(live) == <<>>

\* ------------------------------------------------- rollups and Span.merge
\* id_ and name of the synthetic span Span.merge returns. The rollups below
\* take the spans dict S extended with that span under MergedId.
MergedId == 1000
MergedName == <<"(merged)">>

Max(T) == CHOOSE x \in T : \A y \in T : y <= x
Min(T) == CHOOSE x \in T : \A y \in T : x <= y
\* The result of a call: its value, or the exception it raised.
Ok(v) == [err |-> "", val |-> v]
Raised(e) == [err |-> e, val |-> <<>>]

\* Span.stop: the clock while the span is not done, else the latest
\* TaskGroup.stop of the subtree, at least enqueued; max() of no group raises.
stop(S, id) ==
    IF ~done(S, tg_done, id) THEN Ok(now)
    ELSE IF traverse_groups(S, id) = {} THEN Raised("ValueError")
    ELSE Ok(Max({S[id].enqueued} \cup {tg_stop[g] : g \in traverse_groups(S, id)}))

\* The loop of Span._nthreads_timeseries over hist[i..]; stop_ = 0 means no
\* truncation.
RECURSIVE timeseries_from(_, _, _, _)
timeseries_from(hist, i, stop_, enq) ==
    IF i > Len(hist) THEN <<>>
    ELSE IF stop_ # 0 /\ hist[i][1] >= stop_ THEN <<>>
    ELSE <<<<Max({enq, hist[i][1]}), hist[i][2]>>>>
             \o timeseries_from(hist, i + 1, stop_, enq)

\* Span._nthreads_timeseries, run to exhaustion.
_nthreads_timeseries(S, id) ==
    LET st == IF done(S, tg_done, id) THEN stop(S, id) ELSE Ok(0)
    IN  IF st.err # "" THEN st
        ELSE Ok(timeseries_from(total_nthreads_history,
                                S[id].total_nthreads_offset + 1, st.val,
                                S[id].enqueued))

\* `events` of Span._active_timeseries for the children ch[i..].
RECURSIVE child_events(_, _, _)
child_events(S, ch, i) ==
    IF i > Len(ch) THEN Ok(<<>>)
    ELSE LET st == IF done(S, tg_done, ch[i]) THEN stop(S, ch[i]) ELSE Ok(now)
             rest == child_events(S, ch, i + 1)
         IN  IF st.err # "" THEN st
             ELSE IF rest.err # "" THEN rest
             ELSE Ok(<<<<S[ch[i]].enqueued, 1>>, <<st.val, -1>>>> \o rest.val)

\* events.sort(): tuples in lexicographic order.
EventBefore(a, b) == a[1] < b[1] \/ (a[1] = b[1] /\ a[2] <= b[2])
RECURSIVE SortEvents(_)
SortEvents(ev) ==
    IF ev = <<>> THEN <<>>
    ELSE LET i == CHOOSE k \in 1..Len(ev) : \A j \in 1..Len(ev) : EventBefore(ev[k], ev[j])
         IN  <<ev[i]>> \o SortEvents(SubSeq(ev, 1, i - 1) \o SubSeq(ev, i + 1, Len(ev)))

\* The sweep of Span._active_timeseries over ev[i..] with n_active spans
\* active.
RECURSIVE sweep(_, _, _)
sweep(ev, i, n_active) ==
    IF i > Len(ev) THEN Ok(<<>>)
    ELSE IF n_active = 0 /\ ev[i][2] <= 0 THEN Raised("AssertionError")
    ELSE LET n2 == n_active + ev[i][2]
             rest == sweep(ev, i + 1, n2)
         IN  IF rest.err # "" THEN rest
             ELSE Ok((IF n_active = 0 THEN <<<<ev[i][1], TRUE>>>> ELSE <<>>)
                     \o (IF n2 = 0 THEN <<<<ev[i][1], FALSE>>>> ELSE <<>>)
                     \o rest.val)

_active_timeseries_until_now(S, id) ==
    IF id # MergedId
    THEN Ok(<<<<S[id].enqueued, TRUE>>, <<now, FALSE>>>>)
    ELSE LET ev == child_events(S, S[id].children, 1)
         IN  IF ev.err # "" THEN ev ELSE sweep(SortEvents(ev.val), 1, 0)

\* Span._active_timeseries, run to exhaustion.
_active_timeseries(S, id) ==
    IF id # MergedId
    THEN LET st == IF done(S, tg_done, id) THEN stop(S, id) ELSE Ok(now)
         IN  IF st.err # "" THEN st
             ELSE Ok(<<<<S[id].enqueued, TRUE>>, <<st.val, FALSE>>>>)
    ELSE LET ev == child_events(S, S[id].children, 1)
         IN  IF ev.err # "" THEN ev ELSE sweep(SortEvents(ev.val), 1, 0)

\* distributed.itertools.ffill: for each x[i] the value fp[j] of the last
\* sample with xp[j] <= x[i], or `left` before the first sample.
ffill(x, xp, fp, left) ==
    [i \in 1..Len(x) |->
        LET at == {j \in 1..Len(xp) : xp[j] <= x[i]}
        IN  IF at = {} THEN left ELSE fp[Max(at)]]

\* sorted(T) for a set of numbers.
RECURSIVE Sorted(_)
Sorted(T) == IF T = {} THEN <<>> ELSE <<Min(T)>> \o Sorted(T \ {Min(T)})

\* Span.nthreads_intervals: (begin, end, count) triples.
nthreads_intervals(S, id) ==
    LET A == _nthreads_timeseries(S, id)
        B == _active_timeseries(S, id)
    IN  IF A.err # "" THEN A
        \* zip(*()) yields nothing to unpack into the two names
        ELSE IF A.val = <<>> THEN Raised("ValueError")
        ELSE IF B.err # "" THEN B
        ELSE IF B.val = <<>> THEN Raised("ValueError")
        ELSE LET nthreads_t == [i \in 1..Len(A.val) |-> A.val[i][1]]
                 nthreads_count == [i \in 1..Len(A.val) |-> A.val[i][2]]
                 is_active_t == [i \in 1..Len(B.val) |-> B.val[i][1]]
                 is_active_flag == [i \in 1..Len(B.val) |-> B.val[i][2]]
                 t_interp == Sorted(Range(nthreads_t) \cup Range(is_active_t))
                 nthreads_count_interp == ffill(t_interp, nthreads_t, nthreads_count, 0)
                 is_active_flag_interp ==
                     ffill(t_interp, is_active_t, is_active_flag, FALSE)
                 triples == [i \in 1..(Len(t_interp) - 1) |->
                                <<t_interp[i], t_interp[i + 1],
                                  nthreads_count_interp[i], is_active_flag_interp[i]>>]
                 Active(q) == q[4]
                 kept == SelectSeq(triples, Active)
             IN  Ok([i \in 1..Len(kept) |-> <<kept[i][1], kept[i][2], kept[i][3]>>])

RECURSIVE SumSeq(_, _)
SumSeq(q, i) == IF i > Len(q) THEN 0 ELSE q[i] + SumSeq(q, i + 1)

\* Span.active_cpu_seconds
active_cpu_seconds(S, id) ==
    LET iv == nthreads_intervals(S, id)
    IN  IF iv.err # "" THEN iv
        ELSE Ok(SumSeq([i \in 1..Len(iv.val) |->
                           (iv.val[i][2] - iv.val[i][1]) * iv.val[i][3]], 1))

\* distributed.collections.sum_mappings over the local metrics of ids[i..]:
\* a new dict with the key-wise sums.
RECURSIVE sum_mappings(_, _, _)
sum_mappings(S, ids, i) ==
    IF i > Len(ids) THEN EmptyDict
    ELSE LET d == S[ids[i]].cumulative_worker_metrics
             rest == sum_mappings(S, ids, i + 1)
         IN  [k \in (DOMAIN d) \cup (DOMAIN rest) |->
                 DictGet(d, k, 0) + DictGet(rest, k, 0)]

RECURSIVE SumValues(_, _)
SumValues(d, K) ==
    IF K = {} THEN 0
    ELSE LET k == CHOOSE x \in K : TRUE IN d[k] + SumValues(d, K \ {k})

\* The key of the idle-seconds entry.
IdleKey == <<"execute", "N/A", "idle or other spans", "seconds">>

\* sum(v for k, v in out.items() if k[0] == "execute" and k[-1] == "seconds")
known_seconds(out) ==
    SumValues(out, {k \in DOMAIN out : k[1] = "execute" /\ Last(k) = "seconds"})

\* Span.cumulative_worker_metrics
cumulative_worker_metrics_unclamped(S, id) ==
    LET out == sum_mappings(S, traverse_spans(S, id), 1)
        acs == active_cpu_seconds(S, id)
    IN  IF acs.err # "" THEN acs
        ELSE Ok(DictSet(out, IdleKey, acs.val - known_seconds(out)))

cumulative_worker_metrics(S, id) ==
    LET out == sum_mappings(S, traverse_spans(S, id), 1)
        acs == active_cpu_seconds(S, id)
    IN  IF acs.err # "" THEN acs
        ELSE Ok(DictSet(out, IdleKey, Max({0, acs.val - known_seconds(out)})))

\* Span.code: the snippets of the subtree, deduplicated, in order.
RECURSIVE code_of(_, _, _)
code_of(S, ids, i) ==
    IF i > Len(ids) THEN <<>>
    ELSE LET rest == code_of(S, ids, i + 1)
             NotHere(c) == c \notin Range(S[ids[i]].code)
         IN  S[ids[i]].code \o SelectSeq(rest, NotHere)

span_code(S, id) == Ok(code_of(S, traverse_spans(S, id), 1))

\* TaskGroup.duration: the time spent on the tasks of the group.
TaskGroupDuration(g) == IF g = "g1" THEN 1 ELSE 2

RECURSIVE GroupsDuration(_)
GroupsDuration(G) ==
    IF G = {} THEN 0
    ELSE LET g == CHOOSE x \in G : TRUE
         IN  TaskGroupDuration(g) + GroupsDuration(G \ {g})

\* Span.duration: sum(tg.duration for tg in self.traverse_groups()), each span
\* of the traversal contributing its groups as often as it is traversed.
duration(S, id) ==
    LET q == traverse_spans(S, id)
    IN  SumSeq([i \in 1..Len(q) |-> GroupsDuration(S[q[i]].groups)], 1)

\* Span.merge(*items); items are ids of spans of S.
merge_max_enqueued(S, items) ==
    IF items = <<>> THEN Raised("ValueError")
    ELSE Ok([Span(MergedName, MergedId, NoSpan, 0) EXCEPT
                !.total_nthreads_offset =
                    Min({S[c].total_nthreads_offset : c \in Range(items)}),
                !.children = items,
                !.enqueued = Max({S[c].enqueued : c \in Range(items)})])

merge_empty_ok(S, items) ==
    Ok([Span(MergedName, MergedId, NoSpan, 0) EXCEPT
           !.total_nthreads_offset =
               Min({S[c].total_nthreads_offset : c \in Range(items)} \cup {0}),
           !.children = items,
           !.enqueued = Min({S[c].enqueued : c \in Range(items)} \cup {now})])

merge_first_offset(S, items) ==
    IF items = <<>> THEN Raised("ValueError")
    ELSE Ok([Span(MergedName, MergedId, NoSpan, 0) EXCEPT
                !.total_nthreads_offset = S[items[1]].total_nthreads_offset,
                !.children = items,
                !.enqueued = Min({S[c].enqueued : c \in Range(items)})])

merge(S, items) ==
    IF items = <<>> THEN Raised("ValueError")
    ELSE Ok([Span(MergedName, MergedId, NoSpan, 0) EXCEPT
                !.total_nthreads_offset =
                    Min({S[c].total_nthreads_offset : c \in Range(items)}),
                !.children = items,
                !.enqueued = Min({S[c].enqueued : c \in Range(items)})])

\* SpansSchedulerExtension.merge_all
merge_all(R) == merge(R.spans, R.root_spans)

\* SpansSchedulerExtension.merge_by_tags; returns the registry after
\* find_by_tags ran and the result of Span.merge.
merge_by_tags(R, tags) ==
    LET f == find_by_tags(R, tags)
    IN  [reg |-> f.reg, res |-> merge(R.spans, f.out)]

\* The spans dict with the synthetic span m reachable under MergedId.
WithMerged(S, m) == DictSet(S, MergedId, m)

\* ------------------------------------------------------------------ Init
InitTimeless ==
    /\ now = 1
    /\ total_nthreads_history = <<InitialSample>>
    /\ tg_stop = [g \in Groups |-> 0]

Init ==
    /\ InitTimeless
    /\ nextId = FirstSchedulerUuid
    \* each task was created by the client inside one of its span() contexts
    \* or outside any, and carries that annotation
    /\ annotations \in [Tasks -> ClientAnns \cup {NoAnn}]
    /\ span_id = [g \in Groups |-> NoSpan]
    /\ tg_done = [g \in Groups |-> FALSE]
    /\ spans = EmptyDict
    /\ root_spans = <<>>
    /\ spans_search_by_name = EmptyDict
    /\ spans_search_by_tag = EmptyDict
    /\ worker_digests = EmptyDict
    /\ digests_total_since_heartbeat = EmptyDict
    /\ in_flight = <<>>
    /\ recorded = EmptyDict
    /\ copied = <<>>
    /\ ingested = EmptyDict
    /\ ret = NoCall

\* ------------------------------------------------------------- scheduler
\* The scheduler changes a task group's completion (TaskGroup.done); it may go
\* back to False when a task must be recomputed.
TaskGroupDone(g) ==
    /\ span_id[g] # NoSpan
    /\ tg_done' = [tg_done EXCEPT ![g] = ~@]
    /\ ret' = NoCall
    /\ UNCHANGED <<nextId, annotations, span_id, regVars, workerVars, timeVars>>

\* observe_tasks(tss, code) up to the clock, which the callers below set;
\* `arg` is what the call leaves in ret.arg.
ObserveTasksWith(tss, code, arg) ==
    \E st \in {observe_tasks(reg, span_id, annotations, nextId, tg_done, tss, code)} :
        /\ spans' = st.reg.spans
        /\ root_spans' = st.reg.root_spans
        /\ spans_search_by_name' = st.reg.spans_search_by_name
        /\ spans_search_by_tag' = st.reg.spans_search_by_tag
        /\ span_id' = st.span_id
        /\ annotations' = st.annotations
        /\ nextId' = st.nextId
        \* recorded for the call: the span ids named by annotations of tss that
        \* the call did not follow (the group was attached elsewhere)
        /\ ret' = Ret("observe_tasks", arg,
                       {Last(annotations[t].ids) : t \in
                           {u \in Range(tss) : /\ annotations[u] # NoAnn
                                               /\ st.span_id[GroupOf(u)] #
                                                      Last(annotations[u].ids)}},
                       "")
        /\ UNCHANGED <<tg_done, workerVars, total_nthreads_history, tg_stop>>

ObserveTasksCall(tss, code) == ObserveTasksWith(tss, code, <<>>)

\* The call as seen by a caller that does not look at the clock.
ObserveTasks(tss, code) == ObserveTasksCall(tss, code) /\ UNCHANGED now

Next ==
    \/ \E g \in Groups : TaskGroupDone(g)
    \/ \E tss \in DistinctSeqs(Tasks, 1, MaxBatch), code \in Codes :
          ObserveTasks(tss, code)

Spec == Init /\ [][Next]_vars

\* A caller runs find_by_tags(*tags) to exhaustion.
FindByTags(tags) ==
    \E r \in {find_by_tags(reg, tags)} :
        /\ spans_search_by_tag' = r.reg.spans_search_by_tag
        /\ ret' = Ret("find_by_tags", tags, r.out, "")
        /\ UNCHANGED <<nextId, taskVars, spans, root_spans, spans_search_by_name,
                       workerVars, timeVars>>

\* The registry under observe_tasks calls without code and find_by_tags calls.
NextFind ==
    \/ \E g \in Groups : TaskGroupDone(g)
    \/ \E tss \in DistinctSeqs(Tasks, 1, MaxBatch) : ObserveTasks(tss, <<>>)
    \/ \E tags \in SeqsOf(QueryTags, 0, MaxTags) : FindByTags(tags)

SpecFind == Init /\ [][NextFind]_vars

\* ------------------------------------------------- observing tasks again
\* The client's tasks in these runs: t1 was created inside span("x") or
\* outside any span, t2 inside the nested span("y") or outside any, t3 inside
\* the re-opened span("x") or outside any.
ObservedAnnotations ==
    {[t \in Tasks |-> IF t = "t1" THEN a ELSE IF t = "t2" THEN b ELSE c] :
        a \in {Ax, NoAnn}, b \in {Axy, NoAnn}, c \in {Bx, NoAnn}}

InitObserve == Init /\ annotations \in ObservedAnnotations

\* observe_tasks(tss, code); ret.arg keeps the tasks the call was given.
ObserveTasksOf(tss, code) == ObserveTasksWith(tss, code, tss) /\ UNCHANGED now

\* Groups become done or not done, and tasks are observed, new ones and ones
\* that were fed to observe_tasks before.
NextObserve ==
    \/ \E g \in Groups : TaskGroupDone(g)
    \/ \E tss \in DistinctSeqs(Tasks, 1, MaxBatch), code \in Codes :
          ObserveTasksOf(tss, code)

SpecObserve == InitObserve /\ [][NextObserve]_vars

\* ------------------------------------------------------ spans over time
\* Thread counts of the cluster after a worker joined or left.
ThreadCounts == {1, 2}

\* The client's tasks in the runs over time: t1 and t2 were created inside
\* span("x"); t3 inside the nested span("y"), or outside any span.
TimedAnnotations ==
    {[t \in Tasks |-> IF t = "t3" THEN a ELSE Ax] : a \in {Axy, NoAnn}}

InitTime ==
    /\ InitTimeless
    /\ nextId = FirstSchedulerUuid
    /\ annotations \in TimedAnnotations
    /\ span_id = [g \in Groups |-> NoSpan]
    /\ tg_done = [g \in Groups |-> FALSE]
    /\ spans = EmptyDict
    /\ root_spans = <<>>
    /\ spans_search_by_name = EmptyDict
    /\ spans_search_by_tag = EmptyDict
    /\ worker_digests = EmptyDict
    /\ digests_total_since_heartbeat = EmptyDict
    /\ in_flight = <<>>
    /\ recorded = EmptyDict
    /\ copied = <<>>
    /\ ingested = EmptyDict
    /\ ret = NoCall

\* Time passes.
Tick ==
    /\ now < MaxTime
    /\ now' = now + 1
    /\ ret' = NoCall
    /\ UNCHANGED <<nextId, taskVars, regVars, workerVars, total_nthreads_history,
                   tg_stop>>

\* The scheduler appends (time(), total_nthreads) to its history, when a
\* worker joins or leaves. Distinct events read distinct values of the clock.
WorkersChange(n) ==
    /\ now < MaxTime
    /\ Len(total_nthreads_history) < MaxSamples + 1
    /\ total_nthreads_history' = Append(total_nthreads_history, <<now, n>>)
    /\ now' = now + 1
    /\ ret' = NoCall
    /\ UNCHANGED <<nextId, taskVars, regVars, workerVars, tg_stop>>

\* observe_tasks(tss) at the current time.
ObserveTasksAt(tss) ==
    /\ now < MaxTime
    /\ ObserveTasksCall(tss, <<>>)
    /\ now' = now + 1

\* The last running task of a group finishes: TaskGroup.stop is the time of
\* the end of that task and the group is done. (TaskGroupDone covers a group
\* that becomes done with no task finishing, TaskGroup.stop staying as it is,
\* and a group whose tasks must be recomputed.)
TaskGroupFinish(g) ==
    /\ span_id[g] # NoSpan
    /\ ~tg_done[g]
    /\ tg_done' = [tg_done EXCEPT ![g] = TRUE]
    /\ tg_stop' = [tg_stop EXCEPT ![g] = now]
    /\ ret' = NoCall
    /\ UNCHANGED <<nextId, annotations, span_id, regVars, workerVars, now,
                   total_nthreads_history>>

NextTime ==
    \/ Tick
    \/ \E n \in ThreadCounts : WorkersChange(n)
    \/ \E tss \in DistinctSeqs(Tasks, 1, MaxBatch) : ObserveTasksAt(tss)
    \/ \E g \in Groups : TaskGroupDone(g)
    \/ \E g \in Groups : TaskGroupFinish(g)

SpecTime == InitTime /\ [][NextTime]_vars

\* ---------------------------------------------------------------- merging
\* A caller merges the spans `items` with Span.merge(*items).
MergeSpans(items) ==
    \E m \in {merge(spans, items)} :
        /\ ret' = Ret("merge", items, m.val, m.err)
        /\ UNCHANGED <<nextId, taskVars, regVars, workerVars, timeVars>>

\* A caller runs merge_all().
MergeAll ==
    \E m \in {merge_all(reg)} :
        /\ ret' = Ret("merge_all", root_spans, m.val, m.err)
        /\ UNCHANGED <<nextId, taskVars, regVars, workerVars, timeVars>>

\* A caller runs merge_by_tags(*tags).
MergeByTags(tags) ==
    \E r \in {merge_by_tags(reg, tags)} :
        /\ spans_search_by_tag' = r.reg.spans_search_by_tag
        /\ ret' = Ret("merge_by_tags", tags, r.res.val, r.res.err)
        /\ UNCHANGED <<nextId, taskVars, spans, root_spans, spans_search_by_name,
                       workerVars, timeVars>>

\* Spans are created while workers join and leave, and are merged.
NextMerge ==
    \/ \E n \in ThreadCounts : WorkersChange(n)
    \/ \E tss \in DistinctSeqs(Tasks, 1, MaxBatch) : ObserveTasksAt(tss)
    \/ \E items \in DistinctSeqs(DOMAIN spans, 0, MaxMerged) : MergeSpans(items)
    \/ MergeAll
    \/ \E tags \in SeqsOf(QueryTags, 0, MaxTags) : MergeByTags(tags)

SpecMerge == InitTime /\ [][NextMerge]_vars

\* ------------------------------------------------- the metrics protocol
\* The scheduler state the metrics protocol runs against: the client's tasks
\* t1, t2 (in span Axy) and t3 (unannotated) have been observed.
ObservedStart ==
    observe_tasks(EmptyRegistry, [g \in Groups |-> NoSpan],
                  [t \in Tasks |-> IF t = "t3" THEN NoAnn ELSE Axy],
                  FirstSchedulerUuid, [g \in Groups |-> FALSE],
                  <<"t1", "t2", "t3">>, <<>>)

InitMetrics ==
    /\ InitTimeless
    /\ nextId = ObservedStart.nextId
    /\ annotations = ObservedStart.annotations
    /\ span_id = ObservedStart.span_id
    /\ tg_done = [g \in Groups |-> FALSE]
    /\ spans = ObservedStart.reg.spans
    /\ root_spans = ObservedStart.reg.root_spans
    /\ spans_search_by_name = ObservedStart.reg.spans_search_by_name
    /\ spans_search_by_tag = ObservedStart.reg.spans_search_by_tag
    /\ worker_digests = <<>>
    /\ digests_total_since_heartbeat = <<>>
    /\ in_flight = <<>>
    /\ recorded = EmptyDict
    /\ copied = <<>>
    /\ ingested = EmptyDict
    /\ ret = NoCall

\* Keys of execute metrics of tasks of the observed groups, as the worker
\* records them: (context, span_id, prefix, activity, unit).
ExecuteKeys == {<<"execute", span_id[g], "sum", "compute", "seconds">> : g \in Groups}
\* A key of the worker's accumulator that is no execute metric.
OtherKeys == {<<"gather-dep", "network", "seconds">>}

\* The worker records v under key k while running a task.
WorkerRecord(k, v) ==
    /\ DictGet(recorded, k, 0) + v <= MaxTotal
    /\ worker_digests' = digest_metric(worker_digests, k, v)
    /\ recorded' = DictSet(recorded, k, DictGet(recorded, k, 0) + v)
    /\ ret' = NoCall
    /\ UNCHANGED <<nextId, taskVars, regVars, digests_total_since_heartbeat,
                   in_flight, copied, ingested, timeVars>>

\* Worker.get_metrics, one step without suspension: collect_digests() and then
\* the clearing of the live accumulator; an error of collect_digests leaves
\* the step before the clearing.
WorkerCollect ==
    \E r \in {collect_digests(digests_total_since_heartbeat, worker_digests)} :
        /\ IF r.err # ""
           THEN UNCHANGED <<worker_digests, digests_total_since_heartbeat, copied>>
           ELSE /\ Len(copied) < MaxCollects
                /\ digests_total_since_heartbeat' = r.pending
                /\ worker_digests' = clear_digests(worker_digests)
                /\ copied' = Append(copied, r.pending)
        /\ ret' = Ret("collect_digests", <<>>, <<>>, r.err)
        /\ UNCHANGED <<nextId, taskVars, regVars, in_flight, recorded, ingested,
                       timeVars>>

\* The worker's heartbeat takes the extension's payload, SpansWorkerExtension
\* .heartbeat(), and sends it to the scheduler.
WorkerHeartbeat ==
    \E r \in {worker_heartbeat(digests_total_since_heartbeat)} :
        /\ Len(in_flight) < MaxInFlight
        /\ digests_total_since_heartbeat' = r.pending
        /\ in_flight' = Append(in_flight, r.out)
        /\ copied' = <<>>
        /\ ret' = Ret("worker_heartbeat", <<>>, r.out, "")
        /\ UNCHANGED <<nextId, taskVars, regVars, worker_digests, recorded, ingested,
                       timeVars>>

\* The entries of `data` that SpansSchedulerExtension.heartbeat processes:
\* those before the first whose span id is no registered span.
Reached(data) ==
    LET bad == {i \in 1..Len(data) : data[i][1][2] \notin DOMAIN spans}
    IN  IF bad = {} THEN data
        ELSE SubSeq(data, 1, (CHOOSE i \in bad : \A j \in bad : i <= j) - 1)

RECURSIVE AddItems(_, _, _)
AddItems(d, items, i) ==
    IF i > Len(items) THEN d
    ELSE AddItems(DictSet(d, items[i][1], DictGet(d, items[i][1], 0) + items[i][2]),
                  items, i + 1)

\* SpansSchedulerExtension.heartbeat(ws, data)
SchedulerHeartbeat(data) ==
    \E r \in {heartbeat(spans, data, 1)} :
        /\ spans' = r.spans
        /\ ingested' = AddItems(ingested, Reached(data), 1)
        /\ ret' = Ret("heartbeat", data, <<>>, r.err)
        /\ UNCHANGED <<nextId, taskVars, root_spans, spans_search_by_name,
                       spans_search_by_tag, worker_digests,
                       digests_total_since_heartbeat, recorded, copied, timeVars>>

\* The scheduler receives the oldest payload in flight.
DeliverHeartbeat ==
    /\ in_flight # <<>>
    /\ in_flight' = Tail(in_flight)
    /\ SchedulerHeartbeat(Head(in_flight))

NextMetrics ==
    \/ \E k \in ExecuteKeys \cup OtherKeys, v \in 1..MaxTotal : WorkerRecord(k, v)
    \/ WorkerCollect
    \/ WorkerHeartbeat
    \/ DeliverHeartbeat

SpecMetrics == InitMetrics /\ [][NextMetrics]_vars

\* Payload keys handed to the scheduler directly: of registered spans, of a
\* span id the scheduler has not registered, and with no span id (None).
PayloadIds == {span_id[g] : g \in Groups} \cup {Last(Axyx.ids), NoSpan}
PayloadKeys ==
    {<<"execute", i, "sum", "compute", "seconds">> : i \in PayloadIds}
        \cup {<<"execute", span_id["g1"], "sum", "compute", "count">>}
Payloads ==
    {[i \in 1..Len(ks) |-> <<ks[i], 1>>] : ks \in DistinctSeqs(PayloadKeys, 0, MaxEntries)}

\* heartbeat(ws, data) is called with any payload.
IngestHeartbeat(data) ==
    /\ \A i \in 1..Len(data) : DictGet(ingested, data[i][1], 0) + data[i][2] <= MaxTotal
    /\ UNCHANGED in_flight
    /\ SchedulerHeartbeat(data)

NextIngest == \E data \in Payloads : IngestHeartbeat(data)

SpecIngest == InitMetrics /\ [][NextIngest]_vars

\* ------------------------------------------------ metrics of spans over time
\* Single-entry payloads for registered spans: seconds for each of them, and
\* a count for the span of group g1.
RollupKeys ==
    {<<"execute", i, "sum", "compute", "seconds">> : i \in DOMAIN spans}
        \cup {<<"execute", span_id[g], "sum", "compute", "count">> :
                 g \in {h \in {"g1"} : span_id[h] # NoSpan}}
RollupPayloads == {<<<<k, 1>>>> : k \in RollupKeys}

\* Tasks of groups that have no span yet are observed, time passes, groups
\* become done (their tasks forgotten, TaskGroup.stop unset) or not done, and
\* heartbeats are ingested.
ObserveNewTasksAt(tss) ==
    /\ \A i \in DOMAIN tss : span_id[GroupOf(tss[i])] = NoSpan
    /\ ObserveTasksAt(tss)

NextRollup ==
    \/ Tick
    \/ \E tss \in DistinctSeqs(Tasks, 1, MaxBatch) : ObserveNewTasksAt(tss)
    \/ \E g \in Groups : TaskGroupDone(g)
    \/ \E data \in RollupPayloads : IngestHeartbeat(data)

\* The runs start with t3 created inside the nested span("y").
InitRollup == InitTime /\ annotations["t3"] = Axy

SpecRollup == InitRollup /\ [][NextRollup]_vars

\* ------------------------------------------------------------- properties
\* The span and its ancestors, following Span.parent at most `fuel` times.
RECURSIVE AncestorsOrSelf(_, _, _)
AncestorsOrSelf(S, id, fuel) ==
    IF id = NoSpan \/ id \notin DOMAIN S \/ fuel = 0 THEN {}
    ELSE {id} \cup AncestorsOrSelf(S, S[id].parent, fuel - 1)

Lineage(S, id) == AncestorsOrSelf(S, id, Cardinality(DOMAIN S))

\* Number of positions of sequence s that hold x.
Count(s, x) == Cardinality({i \in 1..Len(s) : s[i] = x})

\* The spans whose groups set holds g.
Holders(g) == {s \in DOMAIN spans : g \in spans[s].groups}

\* C1: first affiliation wins. In every step, a task group whose span_id is
\* set keeps it and stays in the groups set of that span and of no other; and
\* every span the step creates lies on the lineage of the span some group
\* without a span_id was attached to in that step, so the span named by an
\* annotation that was not followed is not created for it.
C1_FirstAffiliationWins ==
    [][ /\ \A g \in Groups : span_id[g] # NoSpan =>
              /\ span_id'[g] = span_id[g]
              /\ \A s \in DOMAIN spans' :
                    (g \in spans'[s].groups) <=> (s = span_id[g])
        /\ \A n \in (DOMAIN spans') \ (DOMAIN spans) :
              \E g \in Groups : /\ span_id[g] = NoSpan
                                /\ span_id'[g] # NoSpan
                                /\ n \in Lineage(spans', span_id'[g]) ]_vars

\* An observe_tasks call met a task whose annotation names a span other than
\* the one its group is attached to, and that span is not registered.
C1_Witness ==
    /\ ret.op = "observe_tasks"
    /\ \E i \in ret.out : i \notin DOMAIN spans

\* C2: each task group with a span_id is in the groups set of exactly one
\* registered span, the one with that id; a group without a span_id is in no
\* span's groups set.
C2_GroupInExactlyOneSpan ==
    \A g \in Groups :
        IF span_id[g] # NoSpan
        THEN /\ span_id[g] \in DOMAIN spans
             /\ spans[span_id[g]].id = span_id[g]
             /\ Holders(g) = {span_id[g]}
        ELSE Holders(g) = {}

\* Both groups are attached, to different spans, and a third span exists.
C2_Witness ==
    /\ \A g \in Groups : span_id[g] # NoSpan
    /\ span_id["g1"] # span_id["g2"]
    /\ Cardinality(DOMAIN spans) >= 3

\* C8: _ensure_span is idempotent. Called for a registered id, under any name,
\* it returns that span and the registry unchanged; called twice for any
\* client annotation, the second call returns the span of the first and
\* changes nothing.
C8_EnsureSpanIdempotent ==
    /\ \A i \in DOMAIN spans : \A nm \in {spans[i].name, <<"x">>, <<"y", "x">>} :
          \A pre \in {<<>>, <<i>>} :
              _ensure_span(reg, nm, pre \o <<i>>) = [reg |-> reg, span |-> i]
    /\ \A a \in ClientAnns :
          LET r1 == _ensure_span(reg, a.name, a.ids)
              r2 == _ensure_span(r1.reg, a.name, a.ids)
          IN  /\ r2 = r1
              /\ r1.span = Last(a.ids)
              /\ Last(a.ids) \in DOMAIN spans => r1.reg = reg

\* Both groups are attached to one span created from a client annotation:
\* observe_tasks called _ensure_span for it once to create it and once more
\* when it was registered; and another client span is still unregistered.
C8_Witness ==
    /\ \E s \in DOMAIN spans : s < FirstSchedulerUuid /\ spans[s].groups = Groups
    /\ \E a \in ClientAnns : Last(a.ids) \notin DOMAIN spans

\* C9 as claimed: each registered span is keyed by its id; it is exactly once
\* in the name index list of its name and in the tag index list of every tag
\* of its name; its parent, if any, is the registered span for the id one
\* level up, was registered before it and lists it exactly once in children;
\* a span without parent is exactly once in root_spans; no span is its own
\* ancestor.
C9_KeyedById == \A i \in DOMAIN spans : spans[i].id = i

C9_NameIndex ==
    \A i \in DOMAIN spans :
        /\ spans[i].name \in DOMAIN spans_search_by_name
        /\ Count(spans_search_by_name[spans[i].name], i) = 1

C9_TagIndexOnce ==
    \A i \in DOMAIN spans : \A tag \in Range(spans[i].name) :
        /\ tag \in DOMAIN spans_search_by_tag
        /\ Count(spans_search_by_tag[tag], i) = 1

C9_Tree ==
    \A i \in DOMAIN spans :
        LET sp == spans[i] IN
        /\ sp.parent # NoSpan =>
              /\ sp.parent \in DOMAIN spans
              /\ Len(sp.name) > 1
              /\ spans[sp.parent].name = SubSeq(sp.name, 1, Len(sp.name) - 1)
              /\ spans[sp.parent].nth < sp.nth
              /\ Count(spans[sp.parent].children, i) = 1
              /\ Count(root_spans, i) = 0
        /\ sp.parent = NoSpan =>
              /\ Len(sp.name) = 1
              /\ Count(root_spans, i) = 1
        /\ \A j \in DOMAIN spans : Count(spans[j].children, i) > 0 => j = sp.parent
        /\ i \notin Lineage(spans, sp.parent)

C9_RegistryStructure ==
    C9_KeyedById /\ C9_NameIndex /\ C9_TagIndexOnce /\ C9_Tree

\* The worker's execute key k as the scheduler stores it: without the span id.
Stripped(k) == <<k[1]>> \o SubSeq(k, 3, Len(k))
\* The value span k[2] holds for the worker's key k.
Accumulated(k) == DictGet(spans[k[2]].cumulative_worker_metrics, Stripped(k), 0)
\* The total of key k over the payloads in flight.
RECURSIVE InFlight(_, _)
InFlight(k, i) ==
    IF i > Len(in_flight) THEN 0 ELSE ItemsGet(in_flight[i], k) + InFlight(k, i + 1)
\* Nothing recorded under k waits in the live accumulator, in the pending
\* buffer or in flight: a collect, a hand-off and an ingestion followed the
\* last record.
Drained(k) ==
    /\ ItemsGet(worker_digests, k) = 0
    /\ ItemsGet(digests_total_since_heartbeat, k) = 0
    /\ InFlight(k, 1) = 0

\* C3: in every interleaving of record, collect (with the clearing of the live
\* accumulator), hand-off and ingestion steps, the value a span holds for an
\* execute key never exceeds what the worker recorded for it, and equals it
\* once a collect, a hand-off and an ingestion followed the last record.
C3_NoLossNoDoubleCount ==
    \A k \in ExecuteKeys :
        /\ Accumulated(k) <= DictGet(recorded, k, 0)
        /\ Drained(k) => Accumulated(k) = DictGet(recorded, k, 0)

\* Metrics recorded in two heartbeat cycles have all reached their span.
C3_Witness ==
    /\ ret.op = "heartbeat"
    /\ \E k \in ExecuteKeys :
          /\ Drained(k)
          /\ Accumulated(k) = MaxTotal
          /\ DictGet(recorded, k, 0) = MaxTotal

\* C4 as claimed: between two hand-offs no second collect_digests call
\* succeeds, whatever the first copied.
C4_SecondCollectAlwaysFails == Len(copied) <= 1

\* C4 amended: a collect_digests call that follows another with no hand-off in
\* between fails exactly when the pending buffer is not empty, that is when
\* the earlier call copied an execute metric; it succeeds when the earlier
\* call copied nothing.
C4_SecondCollectFailsIffPending ==
    /\ \A i \in 1..(Len(copied) - 1) : copied[i] = <<>>
    /\ (ret.op = "collect_digests" /\ ret.err # "") =>
          /\ ret.err = "AssertionError"
          /\ copied # <<>>
          /\ Last(copied) # <<>>
          /\ digests_total_since_heartbeat = Last(copied)

\* A second collect_digests call failed on a pending buffer that holds the
\* metrics the first call copied.
C4_Witness ==
    /\ ret.op = "collect_digests"
    /\ ret.err = "AssertionError"
    /\ Len(copied) = 1
    /\ copied[1] # <<>>

\* C5: the worker's heartbeat() returns the pending buffer, which is what the
\* last collect_digests since the previous hand-off copied (empty if there was
\* none), and leaves the pending buffer empty.
C5_HeartbeatTakesPending ==
    [][ ret'.op = "worker_heartbeat" =>
            /\ ret'.out = digests_total_since_heartbeat
            /\ ret'.out = (IF copied = <<>> THEN <<>> ELSE Last(copied))
            /\ digests_total_since_heartbeat' = <<>>
            /\ copied' = <<>> ]_vars

\* heartbeat() returned a collected snapshot and left the buffer empty.
C5_Witness ==
    /\ ret.op = "worker_heartbeat"
    /\ ret.out # <<>>
    /\ digests_total_since_heartbeat = <<>>

\* Keys of a span's local metrics in the payloads: (context, *other).
StoredKeys == {Stripped(k) : k \in PayloadKeys}
\* The payload key of span s that is stored under key k.
PayloadKey(s, k) == <<k[1], s>> \o Tail(k)

\* Each span holds under each key the sum of the entries processed for it.
C6_Sums ==
    \A s \in DOMAIN spans :
        /\ DOMAIN spans[s].cumulative_worker_metrics \subseteq StoredKeys
        /\ \A k \in StoredKeys :
              DictGet(spans[s].cumulative_worker_metrics, k, 0)
                  = DictGet(ingested, PayloadKey(s, k), 0)

\* A heartbeat ingestion changes nothing but local metrics of spans.
C6_Frame ==
    ret'.op = "heartbeat" =>
        /\ DOMAIN spans' = DOMAIN spans
        /\ \A s \in DOMAIN spans :
              [spans'[s] EXCEPT !.cumulative_worker_metrics = EmptyDict]
                  = [spans[s] EXCEPT !.cumulative_worker_metrics = EmptyDict]
        /\ UNCHANGED <<root_spans, spans_search_by_name, spans_search_by_tag,
                       span_id, annotations, nextId>>

\* C6: after any sequence of scheduler heartbeat ingestions the value a span
\* holds under key (context, dims...) is the sum of the ingested values whose
\* key was (context, that span's id, dims...); an ingestion changes no other
\* span's local metrics and nothing else in the registry.
C6_IngestionSums == []C6_Sums /\ [][C6_Frame]_vars

\* Two ingestions were summed under one key of one span while another span
\* holds a different total.
C6_Witness ==
    /\ ret.op = "heartbeat"
    /\ \E s, t \in DOMAIN spans : \E k \in StoredKeys :
          /\ DictGet(spans[s].cumulative_worker_metrics, k, 0) = MaxTotal
          /\ DictGet(spans[t].cumulative_worker_metrics, k, 0) = 1

\* The span ids of the entries of the payload of the last heartbeat call.
PayloadSpanIds == {ret.arg[i][1][2] : i \in 1..Len(ret.arg)}

\* C7: a scheduler heartbeat whose payload has an entry with an unregistered
\* span id ends in an error (KeyError, unless an entry without span id came
\* first), and no heartbeat creates a span.
C7_UnknownSpanFails ==
    /\ [](ret.op = "heartbeat" /\ ~(PayloadSpanIds \subseteq DOMAIN spans) =>
            /\ ret.err \in {"KeyError", "AssertionError"}
            /\ NoSpan \notin PayloadSpanIds => ret.err = "KeyError")
    /\ [][ret'.op = "heartbeat" => DOMAIN spans' = DOMAIN spans]_vars

\* A payload whose second entry names an unregistered span ended in KeyError
\* after its first entry was ingested.
C7_Witness ==
    /\ ret.op = "heartbeat"
    /\ ret.err = "KeyError"
    /\ Len(ret.arg) = 2
    /\ ret.arg[1][1][2] \in DOMAIN spans
    /\ ret.arg[2][1][2] \notin DOMAIN spans
    /\ DictGet(ingested, ret.arg[1][1], 0) > 0

\* The strict ancestors of a span.
StrictAncestors(id) == Lineage(spans, spans[id].parent)
\* The span's name holds one of the tags.
HasTag(id, tags) == Range(spans[id].name) \cap Range(tags) # {}

\* C10: find_by_tags never yields two spans of which one is a strict ancestor
\* of the other; a span that holds a queried tag and has a strict ancestor, at
\* any depth, that holds a queried tag is not yielded.
C10_FindYieldsNoRelatives ==
    ret.op = "find_by_tags" =>
        /\ \A i, j \in 1..Len(ret.out) :
              ret.out[i] \notin StrictAncestors(ret.out[j])
        /\ \A d \in DOMAIN spans :
              (/\ HasTag(d, ret.arg)
               /\ \E a \in StrictAncestors(d) : HasTag(a, ret.arg))
              => d \notin Range(ret.out)

\* A span, its child and its grandchild all hold the queried tag, and the
\* call yielded the span but neither descendant.
C10_Witness ==
    /\ ret.op = "find_by_tags"
    /\ \E d \in DOMAIN spans :
          /\ spans[d].parent # NoSpan
          /\ spans[spans[d].parent].parent # NoSpan
          /\ HasTag(d, ret.arg)
          /\ spans[spans[d].parent].parent \in Range(ret.out)
          /\ spans[d].parent \notin Range(ret.out)
          /\ d \notin Range(ret.out)

\* C11: find_by_tags is complete: every registered span whose name holds one
\* of the given tags is yielded or has a strict ancestor that is yielded, and
\* every span yielded holds one of the given tags.
C11_FindComplete ==
    ret.op = "find_by_tags" =>
        /\ \A d \in DOMAIN spans :
              HasTag(d, ret.arg) =>
                  \/ d \in Range(ret.out)
                  \/ \E a \in StrictAncestors(d) : a \in Range(ret.out)
        /\ \A y \in Range(ret.out) : y \in DOMAIN spans /\ HasTag(y, ret.arg)

\* The call yielded a span that is no root (its parent holds none of the
\* tags), covering a matching descendant, while a registered span holds none
\* of the tags and was not yielded.
C11_Witness ==
    /\ ret.op = "find_by_tags"
    /\ \E y \in Range(ret.out) :
          /\ spans[y].parent # NoSpan
          /\ \E d \in DOMAIN spans : HasTag(d, ret.arg) /\ y \in StrictAncestors(d)
    /\ \E n \in DOMAIN spans : ~HasTag(n, ret.arg)

\* The spans named ("default",), oldest first.
Defaults == DictGet(spans_search_by_name, DefaultName, <<>>)

\* C12: _ensure_default_span returns the most recently created span named
\* ("default",) when that span is not done and changes nothing; otherwise it
\* creates a span named ("default",) with a fresh id and no parent, appended
\* to the root list, the name index and the tag index; an older default span
\* is never returned, done or not.
C12_DefaultSpanIsNewestOrFresh ==
    LET r == _ensure_default_span(reg, tg_done, nextId)
        touched == [reg EXCEPT !.spans_search_by_name =
                                   DefaultListTouch(@, DefaultName)]
    IN  /\ \A s \in DOMAIN spans :
              spans[s].name = DefaultName =>
                  /\ s \in Range(Defaults)
                  /\ spans[s].nth <= spans[Last(Defaults)].nth
        /\ (Defaults # <<>> /\ ~done(spans, tg_done, Last(Defaults))) =>
              /\ r.span = Last(Defaults)
              /\ ~r.minted
              /\ r.reg = touched
        /\ (Defaults = <<>> \/ done(spans, tg_done, Last(Defaults))) =>
              /\ r.minted
              /\ r.span = nextId
              /\ nextId \notin DOMAIN spans
              /\ DOMAIN r.reg.spans = DOMAIN spans \cup {nextId}
              /\ \A s \in DOMAIN spans : r.reg.spans[s] = spans[s]
              /\ r.reg.spans[nextId].name = DefaultName
              /\ r.reg.spans[nextId].parent = NoSpan
              /\ r.reg.root_spans = Append(root_spans, nextId)
              /\ r.reg.spans_search_by_name =
                     DictSet(spans_search_by_name, DefaultName,
                             Append(Defaults, nextId))
              /\ r.reg.spans_search_by_tag =
                     DictSet(spans_search_by_tag, DefaultName[1],
                             Append(DictGet(spans_search_by_tag, DefaultName[1], <<>>),
                                    nextId))
        /\ \A i \in 1..(Len(Defaults) - 1) : r.span # Defaults[i]

\* Two default spans exist, the older is not done again and the newer is
\* done: the call creates a third rather than return the older.
C12_Witness ==
    /\ Len(Defaults) = 2
    /\ ~done(spans, tg_done, Defaults[1])
    /\ done(spans, tg_done, Defaults[2])
    /\ _ensure_default_span(reg, tg_done, nextId).minted

\* C20: spans are created only by observe_tasks and never removed: the set
\* of registered span ids only grows, it changes only in an observe_tasks
\* call, and after every call each registered span has at least one task
\* group attached somewhere in its subtree.
C20_SpansOnlyGrowAndHoldGroups ==
    /\ [](\A s \in DOMAIN spans : traverse_groups(spans, s) # {})
    /\ [][ /\ DOMAIN spans \subseteq DOMAIN spans'
           /\ \A s \in DOMAIN spans :
                 /\ spans'[s].name = spans[s].name
                 /\ spans'[s].parent = spans[s].parent
           /\ DOMAIN spans' # DOMAIN spans => ret'.op = "observe_tasks" ]_vars

\* A span registered only as the prefix of an annotation has no group of its
\* own and holds one through its grandchild; they are registered after an
\* observe_tasks call, with no task carrying an annotation any more.
C20_Witness ==
    /\ ret.op = "observe_tasks"
    /\ \E s \in DOMAIN spans :
          /\ spans[s].groups = {}
          /\ \E c \in Range(spans[s].children) :
                /\ spans[c].groups = {}
                /\ traverse_groups(spans, c) # {}
    /\ \A t \in Tasks : annotations[t] = NoAnn

\* The inputs handed to Span.merge: distinct registered spans.
MergeInputs == DistinctSeqs(DOMAIN spans, 1, MaxMerged)

\* C19: with a clock that never goes back, each span's enqueued is at least
\* its parent's, and the enqueued of a merged span is at most that of each
\* of its children.
C19_EnqueuedOrdered ==
    /\ \A s \in DOMAIN spans :
          /\ spans[s].enqueued <= now
          /\ spans[s].parent # NoSpan =>
                spans[s].enqueued >= spans[spans[s].parent].enqueued
    /\ \A items \in MergeInputs \cup {root_spans} :
          LET m == merge(spans, items)
          IN  m.err = "" =>
                  \A c \in Range(m.val.children) :
                      m.val.enqueued <= spans[c].enqueued

\* A span was created later than its parent; merged, the two give a span
\* enqueued when the parent was.
C19_Witness ==
    \E s \in DOMAIN spans :
        /\ spans[s].parent # NoSpan
        /\ spans[s].enqueued > spans[spans[s].parent].enqueued
        /\ merge(spans, <<s, spans[s].parent>>).val.enqueued
               = spans[spans[s].parent].enqueued

\* The merge operations, and the spans the last of them was asked to merge.
MergeOps == {"merge", "merge_all", "merge_by_tags"}
MergedInputs ==
    IF ret.op = "merge_by_tags" THEN find_by_tags(reg, ret.arg).out ELSE ret.arg

\* C13: Span.merge with no input, merge_all with no root span and
\* merge_by_tags with no matching span raise ValueError and return no span;
\* with an input they raise nothing.
C13_MergeOfNothingFails ==
    ret.op \in MergeOps =>
        /\ (MergedInputs = <<>>) <=> (ret.err = "ValueError")
        /\ ret.err # "" => ret.out = <<>>
        /\ ret.err \in {"", "ValueError"}

\* merge_by_tags failed for tags no span holds although spans are registered.
C13_Witness ==
    /\ ret.op = "merge_by_tags"
    /\ ret.arg # <<>>
    /\ ret.err = "ValueError"
    /\ root_spans # <<>>

\* What a merge call leaves of the registry: everything, but for tags
\* find_by_tags looked up, which enter the tag index with no span.
C14_Frame ==
    ret'.op \in MergeOps =>
        /\ UNCHANGED <<spans, root_spans, spans_search_by_name, span_id>>
        /\ DOMAIN spans_search_by_tag \subseteq DOMAIN spans_search_by_tag'
        /\ \A tag \in DOMAIN spans_search_by_tag' :
              spans_search_by_tag'[tag] = DictGet(spans_search_by_tag, tag, <<>>)

\* C14: Span.merge, merge_all and merge_by_tags return a synthetic span whose
\* children are the input spans in order, whose enqueued is the least of the
\* inputs' enqueued and whose thread-history offset is the least of the
\* inputs' offsets; the span is not registered, and the call adds no span to
\* the spans dict, the root list, the name index or the tag index and changes
\* no span's parent, children or groups.
C14_MergedSpan ==
    /\ [](ret.op \in MergeOps /\ ret.err = "" =>
            /\ ret.out.children = MergedInputs
            /\ ret.out.enqueued =
                   Min({spans[c].enqueued : c \in Range(MergedInputs)})
            /\ ret.out.total_nthreads_offset =
                   Min({spans[c].total_nthreads_offset : c \in Range(MergedInputs)})
            /\ ret.out.id = MergedId
            /\ ret.out.parent = NoSpan
            /\ ret.out.groups = {}
            /\ MergedId \notin DOMAIN spans
            /\ \A i \in DOMAIN spans :
                  /\ MergedId \notin Range(spans[i].children)
                  /\ spans[i].parent # MergedId)
    /\ [][C14_Frame]_vars

\* merge_by_tags merged two spans, the later created first in the thread
\* history, for a tag looked up for the first time.
C14_Witness ==
    /\ ret.op \in MergeOps
    /\ ret.err = ""
    /\ Len(ret.out.children) = 2
    /\ spans[ret.out.children[1]].total_nthreads_offset
           > spans[ret.out.children[2]].total_nthreads_offset
    /\ spans[ret.out.children[1]].enqueued > ret.out.enqueued

\* The end of the [enqueued, stop) interval of a registered span.
StopOf(id) == stop(spans, id).val
\* The [enqueued, stop) intervals of two spans have no instant in common.
Disjoint(a, b) ==
    \/ StopOf(a) <= spans[b].enqueued
    \/ StopOf(b) <= spans[a].enqueued
\* nthreads_intervals of the merge of the spans `items`.
MergedIntervals(items) ==
    nthreads_intervals(WithMerged(spans, merge(spans, items).val), MergedId)
\* The sum of (end - begin) over intervals.
TotalLength(iv) == SumSeq([i \in 1..Len(iv) |-> iv[i][2] - iv[i][1]], 1)

\* C15: for the merge of two spans whose [enqueued, stop)
\* intervals are disjoint, nthreads_intervals returns intervals whose lengths
\* sum to (stop1 - enqueued1) + (stop2 - enqueued2).
C15_MergedLengthIsSumOfInputs ==
    \A items \in DistinctSeqs(DOMAIN spans, 2, 2) :
        Disjoint(items[1], items[2]) =>
            LET iv == MergedIntervals(items)
            IN  /\ iv.err = ""
                /\ TotalLength(iv.val) =
                       (StopOf(items[1]) - spans[items[1]].enqueued)
                           + (StopOf(items[2]) - spans[items[2]].enqueued)

\* The samples of the thread-count history a span looks at.
SamplesFrom(id) ==
    SubSeq(total_nthreads_history, spans[id].total_nthreads_offset + 1,
           Len(total_nthreads_history))

\* C16: for a registered (non-merged) span, if every thread-count sample from
\* the span's offset onward has the same count N, active_cpu_seconds is
\* N * (stop - enqueued).
C16_ConstantThreadsGiveProduct ==
    \A s \in DOMAIN spans : \A N \in ThreadCounts :
        (\A i \in 1..Len(SamplesFrom(s)) : SamplesFrom(s)[i][2] = N) =>
            LET acs == active_cpu_seconds(spans, s)
            IN  /\ acs.err = ""
                /\ acs.val = N * (StopOf(s) - spans[s].enqueued)

\* A span created after a sample was appended saw another sample of the same
\* count appended during its lifetime, with two threads all along.
C16_Witness ==
    \E s \in DOMAIN spans :
        /\ spans[s].total_nthreads_offset > 0
        /\ Len(SamplesFrom(s)) > 1
        /\ \A i \in 1..Len(SamplesFrom(s)) : SamplesFrom(s)[i][2] = 2
        /\ active_cpu_seconds(spans, s).val >= 4

\* The rollups of span id of S that read the clock, the thread history or the
\* local metrics all return.
RollupsReturn(S, id) ==
    /\ stop(S, id).err = ""
    /\ span_code(S, id).err = ""
    /\ nthreads_intervals(S, id).err = ""
    /\ active_cpu_seconds(S, id).err = ""
    /\ cumulative_worker_metrics(S, id).err = ""

\* C17: the read-only rollups of a span complete without error in any state,
\* for every registered span and for every span Span.merge returns.
C17_RollupsNeverFail ==
    /\ \A s \in DOMAIN spans : RollupsReturn(spans, s)
    /\ \A items \in MergeInputs \cup ({root_spans} \ {<<>>}) :
          RollupsReturn(WithMerged(spans, merge(spans, items).val), MergedId)

\* The spans of the subtree of a registered span.
Subtree(id) == {d \in DOMAIN spans : id \in Lineage(spans, d)}
\* The sum over a set T of spans of the local value under key k.
RECURSIVE LocalSum(_, _)
LocalSum(T, k) ==
    IF T = {} THEN 0
    ELSE LET d == CHOOSE x \in T : TRUE
         IN  DictGet(spans[d].cumulative_worker_metrics, k, 0) + LocalSum(T \ {d}, k)
\* The keys the spans of T hold locally.
LocalKeys(T) == UNION {DOMAIN spans[d].cumulative_worker_metrics : d \in T}
\* The local keys of T that count execution seconds.
SecondsKeys(T) == {k \in LocalKeys(T) : k[1] = "execute" /\ Last(k) = "seconds"}
RECURSIVE KnownSeconds(_, _)
KnownSeconds(T, K) ==
    IF K = {} THEN 0
    ELSE LET k == CHOOSE x \in K : TRUE IN LocalSum(T, k) + KnownSeconds(T, K \ {k})

\* C18: cumulative_worker_metrics of a span holds, under each key some span of
\* its subtree holds locally, the sum of the local values of the subtree, and
\* one more entry, for idle seconds, which is
\* max(0, active_cpu_seconds - known_seconds), known_seconds being the sum of
\* the summed entries whose key starts with "execute" and ends with "seconds";
\* the idle entry is never negative.
C18_RollupIsSubtreeSumPlusIdle ==
    \A s \in DOMAIN spans :
        LET r == cumulative_worker_metrics(spans, s)
            T == Subtree(s)
            known == KnownSeconds(T, SecondsKeys(T))
            idle == active_cpu_seconds(spans, s).val - known
        IN  /\ r.err = ""
            /\ DOMAIN r.val = LocalKeys(T) \cup {IdleKey}
            /\ \A k \in LocalKeys(T) : r.val[k] = LocalSum(T, k)
            /\ r.val[IdleKey] = (IF idle > 0 THEN idle ELSE 0)
            /\ r.val[IdleKey] >= 0

\* A span sums seconds of its child and its own seconds and count, with idle
\* seconds left; another span was handed more seconds than it was active, and
\* its idle entry is clamped to 0.
C18_Witness ==
    /\ \E s \in DOMAIN spans :
          /\ spans[s].children # <<>>
          /\ \E k \in SecondsKeys({s}) :
                cumulative_worker_metrics(spans, s).val[k]
                    > spans[s].cumulative_worker_metrics[k]
          /\ cumulative_worker_metrics(spans, s).val[IdleKey] > 0
    /\ \E s \in DOMAIN spans :
          /\ active_cpu_seconds(spans, s).val
                 < KnownSeconds(Subtree(s), SecondsKeys(Subtree(s)))
          /\ cumulative_worker_metrics(spans, s).val[IdleKey] = 0

\* The groups of the tasks the last observe_tasks call was given.
GivenGroups(r) == {GroupOf(t) : t \in Range(r.arg)}

\* C21: observe_tasks removes the span annotation from every task it is
\* given, also from tasks whose group already had a span; and a call given
\* only tasks whose groups already have a span (as every task observed before
\* has) creates no span, default span included, mints no uuid and moves no
\* group to another span.
C21_ObserveWipesAndReobserveIsNoOp ==
    [][ ret'.op = "observe_tasks" /\ ret'.arg # <<>> =>
           /\ \A t \in Range(ret'.arg) : annotations'[t] = NoAnn
           /\ \A t \in Tasks \ Range(ret'.arg) : annotations'[t] = annotations[t]
           /\ (\A g \in GivenGroups(ret') : span_id[g] # NoSpan) =>
                  /\ DOMAIN spans' = DOMAIN spans
                  /\ root_spans' = root_spans
                  /\ spans_search_by_name' = spans_search_by_name
                  /\ spans_search_by_tag' = spans_search_by_tag
                  /\ nextId' = nextId
                  /\ span_id' = span_id
                  /\ \A s \in DOMAIN spans :
                        /\ spans'[s].groups = spans[s].groups
                        /\ spans'[s].children = spans[s].children ]_vars

\* observe_tasks was given the single task t2, which carried the annotation
\* of span("y") while its group was attached to another span: the annotation
\* is gone, the span it named was not created, no default span was looked up
\* or created, and the group has a span.
C21_Witness ==
    /\ ret.op = "observe_tasks"
    /\ ret.arg = <<"t2">>
    /\ ret.out = {Last(Axy.ids)}
    /\ annotations["t2"] = NoAnn
    /\ Last(Axy.ids) \notin DOMAIN spans
    /\ span_id["g1"] \in DOMAIN spans
    /\ DefaultName \notin DOMAIN spans_search_by_name

\* The timeline Span._active_timeseries yields for the merge of `items`.
MergedTimeline(items) ==
    _active_timeseries(WithMerged(spans, merge(spans, items).val), MergedId)

\* C22: in the sweep over the sorted events of a merged span's children the
\* assertion delta > 0 holds, whatever the children: the timeline of every
\* merge of registered spans is built without AssertionError.
C22_SweepAssertionHolds ==
    \A items \in MergeInputs : MergedTimeline(items).err # "AssertionError"

\* No element occurs twice in the sequence q.
NoDuplicate(q) == \A i, j \in 1..Len(q) : i # j => q[i] # q[j]

\* The sum of Span.duration over a set T of registered spans.
RECURSIVE DurationOf(_)
DurationOf(T) ==
    IF T = {} THEN 0
    ELSE LET d == CHOOSE x \in T : TRUE
         IN  duration(spans, d) + DurationOf(T \ {d})

\* C23: find_by_tags yields each span at most once, so that the children of
\* the span merge_by_tags returns hold no span twice and its duration is the
\* sum of the durations of the distinct matched spans.
C23_MergeByTagsCountsEachSpanOnce ==
    ret.op = "merge_by_tags" /\ ret.err = "" =>
        /\ NoDuplicate(ret.out.children)
        /\ duration(WithMerged(spans, ret.out), MergedId)
               = DurationOf(Range(ret.out.children))

====
